---- MODULE Spec2Model ----
(***************************************************************************)
(* A model of the speech corpus tooling: corpus construction and its       *)
(* manifest (corpus.py), the training/test split strategies, the batch      *)
(* generator with its spectrogram cache and cache fill (corpus.py), the     *)
(* helpers of tools.py and the spectrogram of labeled_example.py.           *)
(*                                                                         *)
(* Text is modelled as a sequence of one-character strings, so that the     *)
(* manifest writer and reader work on characters as the csv module does.    *)
(***************************************************************************)
EXTENDS Integers, Sequences, FiniteSets, TLC

VARIABLES
    corpora,        \* slot -> the Corpus object constructed there (or NoCorpus)
    combined,       \* the CombinedCorpus object constructed from the slots (or NoCorpus)
    manifest,       \* the manifest file: NoFile or its sequence of lines
    loaded,         \* the object Corpus.load produced (or NoCorpus)
    sample_rate,    \* example id -> the sample rate its audio source delivers
    cache,          \* the cache directory: example id -> the array in its cache file
    audio_memo,     \* ids whose raw_audio_and_sample_rate is memoized in this process
    call_events,    \* what the last call of the cached accessor did
    returned,       \* the outcome of the last call of the cached accessor
    first_returned, \* example id -> the array its first successful call returned
    fill,           \* the state of the fill_cache() call
    labeled_training_spectrograms,  \* the batch generator's training examples
    labeled_test_spectrograms,      \* the batch generator's test examples
    batch_size,     \* the batch generator's batch size
    rng,            \* the state of the process-wide random generator
    training_gen,   \* the training_batches() generator: "running" or "raised"
    batch,          \* the batch training_batches() yielded last
    test_gen,       \* the test_batches() generator: its state and next start
    pages,          \* the pages test_batches() has yielded
    split_examples, \* the examples given to the split strategies
    key_from_example, \* the key of the randomly family's split: "id" or "audio_directory"
    training_share, \* its training share <<numerator, denominator>>
    first_split,    \* the first application of the randomly family's split
    last_split,     \* the last application of a split strategy
    labeled_example \* the LabeledExample whose accessors are called

corpusVars == <<corpora, combined, manifest, loaded>>
cacheVars == <<sample_rate, cache, audio_memo, call_events, returned, first_returned, fill>>
generatorVars == <<labeled_training_spectrograms, labeled_test_spectrograms, batch_size>>
batchVars == <<rng, training_gen, batch, test_gen, pages>>
splitVars == <<split_examples, key_from_example, training_share, first_split, last_split>>
exampleVars == <<labeled_example>>
vars == <<corpusVars, cacheVars, generatorVars, batchVars, splitVars, exampleVars>>

(***************************************************************************)
(* Bounds.                                                                 *)
(***************************************************************************)
MaxLen == 2         \* longest training or test list given to a constructor
MaxCorpora == 2     \* most member corpora of a CombinedCorpus
MaxTest == 7        \* largest test set paged, beside the set of ExampleTestSize
MaxTraining == 3    \* largest training set sampled
MaxBatch == 3       \* largest batch size, beside DefaultBatchSize
MaxSplitLen == 3    \* longest example list given to a split strategy
RngModulus == 8     \* number of states of the random generator
MaxCalls == 3       \* most accessor calls made on one LabeledExample
MaxProcesses == 2   \* largest multiprocessing.cpu_count() of the machine

(***************************************************************************)
(* Program constants.                                                      *)
(***************************************************************************)
DefaultBatchSize == 64
RandomSeed == 42

(***************************************************************************)
(* Values.                                                                 *)
(***************************************************************************)
\* Python's None: a text that no sequence of characters equals.
None == <<"None">>

Comma == ","
Quote == "\""
Slash == "/"

\* The examples the constructors draw from: two share the id "a", one has no
\* label, one an empty label, one an id and a label that the manifest quotes.
SampleExamples ==
    { [id |-> <<"a">>, audio_file |-> <<"d", Slash, "a">>, label |-> None],
      [id |-> <<"a">>, audio_file |-> <<"t", Slash, "a">>, label |-> <<>>],
      [id |-> <<"c", Comma, "d">>, audio_file |-> <<"t", Slash, "c">>,
       label |-> <<Quote, "h">>] }

RECURSIVE SeqsUpTo(_, _)
\* All sequences over S of length at most n.
SeqsUpTo(S, n) ==
    IF n = 0 THEN {<<>>}
    ELSE LET shorter == SeqsUpTo(S, n - 1)
         IN shorter \cup {Append(s, x) : s \in shorter, x \in S}

Slots == 1..MaxCorpora

NoCorpus == [kind |-> "none"]
NoFile == <<"NoFile">>

(***************************************************************************)
(* tools.py                                                                *)
(***************************************************************************)
Count(sequence, item) == Cardinality({i \in 1..Len(sequence) : sequence[i] = item})

RECURSIVE duplicatesFrom(_, _)
duplicatesFrom(sequence, i) ==
    IF i > Len(sequence) THEN <<>>
    ELSE LET item == sequence[i]
             first == \A j \in 1..(i - 1) : sequence[j] # item
         IN (IF first /\ Count(sequence, item) > 1 THEN <<item>> ELSE <<>>)
            \o duplicatesFrom(sequence, i + 1)

\* tools.duplicates: the items counted more than once, in the order a Counter
\* keeps them (first occurrence).
duplicates(sequence) == duplicatesFrom(sequence, 1)

(***************************************************************************)
(* corpus.py: Corpus and CombinedCorpus                                    *)
(***************************************************************************)
IdsOf(examples) == [i \in 1..Len(examples) |-> examples[i].id]

\* Corpus.__init__: the object with the fields assigned, and the ValueError of
\* the first failing check (training, then test, then both lists together).
CorpusInit(kind, training_examples, test_examples) ==
    LET examples == training_examples \o test_examples
        duplicate_training_ids == duplicates(IdsOf(training_examples))
        duplicate_test_ids == duplicates(IdsOf(test_examples))
        overlapping_ids == duplicates(IdsOf(examples))
        object == [kind |-> kind,
                   training_examples |-> training_examples,
                   test_examples |-> test_examples,
                   examples |-> examples]
    IN  IF Len(duplicate_training_ids) > 0
        THEN [object |-> object, raised |-> "ValueError",
              message |-> "Duplicate ids in training examples",
              message_ids |-> duplicate_training_ids]
        ELSE IF Len(duplicate_test_ids) > 0
        THEN [object |-> object, raised |-> "ValueError",
              message |-> "Duplicate ids in test examples",
              message_ids |-> duplicate_test_ids]
        ELSE IF Len(overlapping_ids) > 0
        THEN [object |-> object, raised |-> "ValueError",
              message |-> "Overlapping training and test set",
              message_ids |-> overlapping_ids]
        ELSE [object |-> object, raised |-> "no", message |-> "",
              message_ids |-> <<>>]

RECURSIVE Flatten(_)
Flatten(lists) ==
    IF Len(lists) = 0 THEN <<>> ELSE Head(lists) \o Flatten(Tail(lists))

\* CombinedCorpus.__init__: Corpus.__init__ over the members' lists, concatenated.
CombinedCorpusInit(members) ==
    CorpusInit("CombinedCorpus",
               Flatten([i \in 1..Len(members) |-> members[i].object.training_examples]),
               Flatten([i \in 1..Len(members) |-> members[i].object.test_examples]))

Constructed(c) == c # NoCorpus
Valid(c) == Constructed(c) /\ c.raised = "no"

ExampleLists == SeqsUpTo(SampleExamples, MaxLen)

\* Corpus(training_examples, test_examples), kept in the next free slot.
ConstructCorpus(slot) ==
    /\ ~Constructed(corpora[slot])
    /\ \A s \in Slots : s < slot => Valid(corpora[s])
    /\ \E training_examples \in ExampleLists, test_examples \in ExampleLists :
         corpora' = [corpora EXCEPT
                       ![slot] = CorpusInit("Corpus", training_examples, test_examples)]
    /\ UNCHANGED <<exampleVars, combined, manifest, loaded, cacheVars, generatorVars, batchVars, splitVars>>

\* CombinedCorpus(corpora) over a list of constructed corpora.
ConstructCombinedCorpus ==
    /\ ~Constructed(combined)
    /\ \E members \in SeqsUpTo({s \in Slots : Valid(corpora[s])}, MaxCorpora) :
         combined' = CombinedCorpusInit([i \in 1..Len(members) |-> corpora[members[i]]])
    /\ UNCHANGED <<exampleVars, corpora, manifest, loaded, cacheVars, generatorVars, batchVars, splitVars>>

NoCall == [id |-> "", raised |-> "not called", repeat |-> FALSE]
IdleFill == [pc |-> "idle", to_calculate |-> <<>>, index |-> 0, in_flight |-> {},
             result |-> "none", events |-> <<>>, failed |-> <<>>,
             at_check |-> <<>>, summary |-> <<0, 0, 0>>, raised |-> "no",
             processes |-> 1, worker |-> 0]

\* No corpus object, no manifest.
CorpusUnused ==
    /\ corpora = [s \in Slots |-> NoCorpus]
    /\ combined = NoCorpus
    /\ manifest = NoFile
    /\ loaded = NoCorpus

\* No batch generator, an empty cache directory.
CacheUnused ==
    /\ sample_rate = <<>>
    /\ cache = <<>>
    /\ audio_memo = {}
    /\ call_events = <<>>
    /\ returned = NoCall
    /\ first_returned = <<>>
    /\ fill = IdleFill

NoSplit == [strategy |-> "none"]

\* No batch generator.
GeneratorUnused ==
    /\ labeled_training_spectrograms = <<>>
    /\ labeled_test_spectrograms = <<>>
    /\ batch_size = 0

\* No batch drawn, no page yielded.
BatchesUnused ==
    /\ rng = 0
    /\ training_gen = "running"
    /\ batch = <<>>
    /\ test_gen = [state |-> "created", start |-> 0]
    /\ pages = <<>>

\* No split applied.
SplitUnused ==
    /\ split_examples = <<>>
    /\ key_from_example = "id"
    /\ training_share = <<0, 1>>
    /\ first_split = NoSplit
    /\ last_split = NoSplit

\* What a LabeledExample computes: the deferred audio-loading function, the
\* transform, the spectrogram derivations and the normalization.
Derivations ==
    {"load_audio", "stft", "amplitude", "power", "power level", "mel", "z_normalize"}

\* No LabeledExample constructed.
NoAccess == [accessor |-> <<"none", "", "">>, raised |-> "not called", events |-> <<>>]
NoExample == [id |-> "", attributes |-> {}, calls |-> 0,
              computed |-> [d \in Derivations |-> 0], last |-> NoAccess]

ExampleUnused == labeled_example = NoExample

InitCorpus ==
    /\ CorpusUnused /\ CacheUnused /\ GeneratorUnused /\ BatchesUnused /\ SplitUnused
    /\ ExampleUnused

NextCorpus ==
    \/ \E slot \in Slots : ConstructCorpus(slot)
    \/ ConstructCombinedCorpus

SpecCorpus == InitCorpus /\ [][NextCorpus]_vars

(***************************************************************************)
(* corpus.py: the manifest (Corpus.save, Corpus.load) over Python's csv    *)
(* writer and reader: delimiter ",", quotechar '"', QUOTE_MINIMAL. The      *)
(* sample texts hold no line break, so a row is one line of the file.       *)
(***************************************************************************)
\* Phase.training.value and Phase.test.value
PhaseTraining == <<"t", "r", "a", "i", "n", "i", "n", "g">>
PhaseTest == <<"t", "e", "s", "t">>

\* The writer's text of a field: None is written as the empty text.
CsvText(value) == IF value = None THEN <<>> ELSE value

NeedsQuotes(text) == \E i \in 1..Len(text) : text[i] \in {Comma, Quote}

RECURSIVE DoubleQuotes(_)
DoubleQuotes(text) ==
    IF Len(text) = 0 THEN <<>>
    ELSE (IF Head(text) = Quote THEN <<Quote, Quote>> ELSE <<Head(text)>>)
         \o DoubleQuotes(Tail(text))

\* One field as QUOTE_MINIMAL writes it.
CsvField(value) ==
    LET text == CsvText(value)
    IN IF NeedsQuotes(text) THEN <<Quote>> \o DoubleQuotes(text) \o <<Quote>> ELSE text

RECURSIVE JoinFields(_)
JoinFields(fields) ==
    IF Len(fields) = 0 THEN <<>>
    ELSE IF Len(fields) = 1 THEN fields[1]
    ELSE fields[1] \o <<Comma>> \o JoinFields(Tail(fields))

\* csv.writer.writerow
writerow(row) == JoinFields([i \in 1..Len(row) |-> CsvField(row[i])])

RECURSIVE ParseFrom(_, _, _, _, _)
\* csv.reader's automaton over one line, from character i on: state is
\* "start_field", "in_field", "in_quoted_field" or "quote_in_quoted_field".
ParseFrom(line, i, state, field, fields) ==
    IF i > Len(line)
    THEN Append(fields, field)
    ELSE LET c == line[i]
         IN CASE state = "start_field" ->
                   IF c = Quote THEN ParseFrom(line, i + 1, "in_quoted_field", field, fields)
                   ELSE IF c = Comma
                   THEN ParseFrom(line, i + 1, "start_field", <<>>, Append(fields, field))
                   ELSE ParseFrom(line, i + 1, "in_field", Append(field, c), fields)
              [] state = "in_field" ->
                   IF c = Comma
                   THEN ParseFrom(line, i + 1, "start_field", <<>>, Append(fields, field))
                   ELSE ParseFrom(line, i + 1, "in_field", Append(field, c), fields)
              [] state = "in_quoted_field" ->
                   IF c = Quote
                   THEN ParseFrom(line, i + 1, "quote_in_quoted_field", field, fields)
                   ELSE ParseFrom(line, i + 1, "in_quoted_field", Append(field, c), fields)
              [] OTHER ->
                   IF c = Quote
                   THEN ParseFrom(line, i + 1, "in_quoted_field", Append(field, c), fields)
                   ELSE IF c = Comma
                   THEN ParseFrom(line, i + 1, "start_field", <<>>, Append(fields, field))
                   ELSE ParseFrom(line, i + 1, "in_field", Append(field, c), fields)

\* One row of csv.reader: the fields of a line (an empty line is an empty row).
readrow(line) == IF Len(line) = 0 THEN <<>> ELSE ParseFrom(line, 1, "start_field", <<>>, <<>>)

RECURSIVE PathText(_)
\* Path(text) as text: pathlib collapses repeated separators.
PathText(text) ==
    IF Len(text) < 2 THEN text
    ELSE IF text[1] = Slash /\ text[2] = Slash THEN PathText(Tail(text))
    ELSE <<text[1]>> \o PathText(Tail(text))

\* The rows Corpus.save writes: training examples, then test examples.
SaveRows(corpus) ==
    LET examples_and_phase ==
            [i \in 1..Len(corpus.training_examples) |->
                <<corpus.training_examples[i], PhaseTraining>>]
            \o [i \in 1..Len(corpus.test_examples) |->
                <<corpus.test_examples[i], PhaseTest>>]
    IN [i \in 1..Len(examples_and_phase) |->
          LET e == examples_and_phase[i][1]
              phase == examples_and_phase[i][2]
          IN writerow(<<e.id, e.audio_file, e.label, phase>>)]

SelectPhase(examples, phase) ==
    LET chosen == SelectSeq(examples, LAMBDA ep : ep[2] = phase)
    IN [i \in 1..Len(chosen) |-> chosen[i][1]]

\* Corpus.load: a row that does not unpack into four fields raises ValueError,
\* a phase that names no Phase member raises KeyError; otherwise the examples
\* go to Corpus.__init__ by phase.
LoadCorpus(lines) ==
    LET rows == [i \in 1..Len(lines) |-> readrow(lines[i])]
        failed(raised) == [object |-> NoCorpus, raised |-> raised, message |-> "",
                           message_ids |-> <<>>]
    IN IF \E i \in 1..Len(rows) : Len(rows[i]) # 4 THEN failed("ValueError")
       ELSE IF \E i \in 1..Len(rows) : rows[i][4] \notin {PhaseTraining, PhaseTest}
       THEN failed("KeyError")
       ELSE LET examples ==
                    [i \in 1..Len(rows) |->
                       <<[id |-> rows[i][1], audio_file |-> PathText(rows[i][2]),
                          label |-> rows[i][3]],
                         rows[i][4]>>]
            IN CorpusInit("Corpus", SelectPhase(examples, PhaseTraining),
                          SelectPhase(examples, PhaseTest))

\* corpus.save(corpus_csv_file) on the corpus of slot 1.
Save ==
    /\ Valid(corpora[1])
    /\ manifest' = SaveRows(corpora[1].object)
    /\ UNCHANGED <<exampleVars, corpora, combined, loaded, cacheVars, generatorVars, batchVars, splitVars>>

\* Corpus.load(corpus_csv_file)
Load ==
    /\ manifest # NoFile
    /\ loaded' = LoadCorpus(manifest)
    /\ UNCHANGED <<exampleVars, corpora, combined, manifest, cacheVars, generatorVars, batchVars, splitVars>>

NextManifest ==
    \/ ConstructCorpus(1)
    \/ Save
    \/ Load

SpecManifest == InitCorpus /\ [][NextManifest]_vars

(***************************************************************************)
(* Claims about construction and the manifest.                             *)
(***************************************************************************)
Range(sequence) == {sequence[i] : i \in 1..Len(sequence)}

\* The ids that occur more than once in the training and test lists together.
DuplicatedIds(c) ==
    {id \in Range(IdsOf(c.object.examples)) : Count(IdsOf(c.object.examples), id) > 1}

NamesExactlyTheDuplicates(c) ==
    IF DuplicatedIds(c) = {}
    THEN c.raised = "no"
    ELSE c.raised = "ValueError" /\ Range(c.message_ids) = DuplicatedIds(c)

\* C1: constructing a Corpus or a CombinedCorpus succeeds when no id occurs
\* twice in its training and test lists, and otherwise fails with a ValueError
\* whose message names exactly the ids that occur more than once.
C1_ConstructionNamesExactlyTheDuplicates ==
    /\ \A s \in Slots : Constructed(corpora[s]) => NamesExactlyTheDuplicates(corpora[s])
    /\ Constructed(combined) => NamesExactlyTheDuplicates(combined)

Triples(examples) ==
    [i \in 1..Len(examples) |->
        <<examples[i].id, examples[i].audio_file, examples[i].label>>]

\* C10: loading the manifest saved from a valid Corpus yields a Corpus with the
\* same (id, audio path, label) triples in the same order and phase, absent
\* labels included.
C10_SaveLoadRoundTrip ==
    Constructed(loaded) =>
        /\ loaded.raised = "no"
        /\ Triples(loaded.object.training_examples)
             = Triples(corpora[1].object.training_examples)
        /\ Triples(loaded.object.test_examples)
             = Triples(corpora[1].object.test_examples)

(***************************************************************************)
(* labeled_example.py: the spectrogram of a LabeledExample. The transform   *)
(* and the mel filter bank are the signal-processing library's: a sample    *)
(* transform per example and a one-band filter stand for them. Arrays are   *)
(* matrices of integers, a row per entry of the first axis.                 *)
(***************************************************************************)
AssertedSampleRate == 16000
OtherSampleRate == AssertedSampleRate \div 2
min_decibel == -150
ZScale == 10        \* a z-normalized value v is kept as the integer part of v * ZScale

ExampleIds == {"a", "b", "c"}

\* librosa.stft of the example's audio, frequency x time, entries <<re, im>>:
\* "b" is digital silence.
Stft(e) ==
    CASE e = "a" -> << <<(<<1, 0>>), (<<0, 0>>), (<<1, 0>>)>>,
                       <<(<<0, 10>>), (<<10, 0>>), (<<0, 1>>)>> >>
      [] e = "b" -> << <<(<<0, 0>>), (<<0, 0>>)>>, <<(<<0, 0>>), (<<0, 0>>)>> >>
      [] OTHER   -> << <<(<<10, 0>>), (<<1, 0>>)>>, <<(<<0, 1>>), (<<0, 0>>)>> >>

\* librosa.filters.mel: one mel band over the two linear bins.
MelFilter(sr) == << <<1, 1>> >>

RECURSIVE IsqrtIter(_, _)
IsqrtIter(n, x) ==
    LET y == (x + (n \div x)) \div 2
    IN IF y >= x THEN x ELSE IsqrtIter(n, y)

\* The integer square root.
Isqrt(n) == IF n = 0 THEN 0 ELSE IsqrtIter(n, n)

RECURSIVE Log10(_)
\* log10 of a power of ten (the sample powers are 1 and 100).
Log10(x) == IF x < 10 THEN 0 ELSE 1 + Log10(x \div 10)

RECURSIVE SumSeq(_)
SumSeq(xs) == IF Len(xs) = 0 THEN 0 ELSE Head(xs) + SumSeq(Tail(xs))

\* LabeledExample._complex_spectrogram
complex_spectrogram(e) == Stft(e)

\* LabeledExample._amplitude_spectrogram: abs of the complex spectrogram
amplitude_spectrogram(e) ==
    LET m == complex_spectrogram(e)
    IN [i \in 1..Len(m) |->
          [j \in 1..Len(m[i]) |->
              Isqrt(m[i][j][1] * m[i][j][1] + m[i][j][2] * m[i][j][2])]]

\* LabeledExample._power_spectrogram
power_spectrogram(e) ==
    LET m == amplitude_spectrogram(e)
    IN [i \in 1..Len(m) |-> [j \in 1..Len(m[i]) |-> m[i][j] * m[i][j]]]

power_to_decibel(x) ==
    IF x = 0 THEN min_decibel
    ELSE LET l == 10 * Log10(x)
         IN IF l < min_decibel THEN min_decibel ELSE l

\* LabeledExample._power_level_from_power_spectrogram
power_level_from_power_spectrogram(m) ==
    [i \in 1..Len(m) |-> [j \in 1..Len(m[i]) |-> power_to_decibel(m[i][j])]]

\* numpy.dot of two matrices
Dot(a, b) ==
    [i \in 1..Len(a) |->
        [j \in 1..Len(b[1]) |-> SumSeq([k \in 1..Len(b) |-> a[i][k] * b[k][j]])]]

\* LabeledExample._convert_spectrogram_to_mel_scale
convert_spectrogram_to_mel_scale(sr, linear_frequency_spectrogram) ==
    Dot(MelFilter(sr), linear_frequency_spectrogram)

\* LabeledExample.spectrogram(type, frequency_scale)
spectrogram(e, sr, type, frequency_scale) ==
    LET s == CASE type = "power" -> power_spectrogram(e)
               [] type = "amplitude" -> amplitude_spectrogram(e)
               [] OTHER -> power_level_from_power_spectrogram(power_spectrogram(e))
    IN IF frequency_scale = "mel" THEN convert_spectrogram_to_mel_scale(sr, s) ELSE s

\* ndarray.T
Transpose(m) == [j \in 1..Len(m[1]) |-> [i \in 1..Len(m) |-> m[i][j]]]

Entries(m) == Flatten(m)

\* z_normalize: (array - mean(array)) / std(array) over the whole array, in
\* units of 1/ZScale. With n entries of sum S, (x - mean) / std is
\* (n x - S) / sqrt(Q / n) for Q the sum of the (n x - S)^2. A constant array
\* has std 0 and every entry is 0 / 0, which numpy makes nan.
z_normalize(array) ==
    LET xs == Entries(array)
        n == Len(xs)
        S == SumSeq(xs)
        Q == SumSeq([i \in 1..n |-> (n * xs[i] - S) * (n * xs[i] - S)])
        D == Isqrt((Q * ZScale * ZScale) \div n)
    IN IF Q = 0
       THEN [nan |-> TRUE,
             values |-> [i \in 1..Len(array) |-> [j \in 1..Len(array[i]) |-> 0]]]
       ELSE [nan |-> FALSE,
             values |-> [i \in 1..Len(array) |->
                           [j \in 1..Len(array[i]) |->
                               ((n * array[i][j] - S) * ZScale * ZScale) \div D]]]

\* A transposed spectrogram that is not normalized.
transposed_spectrogram_not_normalized(e, sr) ==
    [nan |-> FALSE, values |-> Transpose(spectrogram(e, sr, "power level", "mel"))]

\* LabeledExample.z_normalized_transposed_spectrogram: shape (time, frequencies)
z_normalized_transposed_spectrogram(e, sr) ==
    z_normalize(Transpose(spectrogram(e, sr, "power level", "mel")))

\* LabeledExample.raw_audio_and_sample_rate (@lazy): the loading function is
\* invoked unless the value is memoized; a sample rate other than the asserted
\* one fails the assertion, and nothing is memoized then.
raw_audio_and_sample_rate(e, memo) ==
    IF e \in memo
    THEN [raised |-> "no", memo |-> memo, events |-> <<>>]
    ELSE IF AssertedSampleRate # sample_rate[e]
    THEN [raised |-> "AssertionError", memo |-> memo,
          events |-> << <<"load_audio", e>> >>]
    ELSE [raised |-> "no", memo |-> memo \cup {e},
          events |-> << <<"load_audio", e>> >>]

\* A call of example.z_normalized_transposed_spectrogram(): the audio is
\* materialized first (raw_audio in _complex_spectrogram), then the array is
\* computed.
ComputeSpectrogram(e, memo) ==
    LET audio == raw_audio_and_sample_rate(e, memo)
    IN IF audio.raised # "no"
       THEN [raised |-> audio.raised, memo |-> audio.memo, events |-> audio.events]
       ELSE [raised |-> "no", memo |-> audio.memo,
             events |-> Append(audio.events, <<"compute", e>>),
             value |-> z_normalized_transposed_spectrogram(e, sample_rate[e])]

(***************************************************************************)
(* labeled_example.py: the accessors of one LabeledExample. A @lazy         *)
(* attribute keeps its value in the object once its function has returned;  *)
(* a method runs its body at every call. Every call reports the             *)
(* computations it made as events <<derivation, id>>.                       *)
(***************************************************************************)
\* The number of samples of the example's audio.
AudioSamples(e) == CASE e = "a" -> 4 [] e = "b" -> 2 [] OTHER -> 1

\* The outcome of a call that returned value after r, and of one that raised
\* as r did, with the events of the whole call.
Returned(r, events, value) ==
    [raised |-> "no", memo |-> r.memo, attributes |-> r.attributes,
     events |-> events, value |-> value]

Raised(r, events) ==
    [raised |-> r.raised, memo |-> r.memo, attributes |-> r.attributes,
     events |-> events]

\* @lazy: the value is kept under the attribute's name when the function has
\* returned, not when it has raised.
memoized(name, both, attributes) ==
    [raised |-> both.raised, memo |-> both.memo,
     attributes |-> IF both.raised = "no" THEN attributes \cup {name} ELSE attributes,
     events |-> both.events]

\* A @lazy attribute computed from raw_audio_and_sample_rate (raw_audio,
\* sample_rate).
lazy_attribute(name, e, memo, attributes) ==
    IF name \in attributes
    THEN [raised |-> "no", memo |-> memo, attributes |-> attributes, events |-> <<>>]
    ELSE memoized(name, raw_audio_and_sample_rate(e, memo), attributes)

\* The methods spectrogram_by_type() runs for a type: _complex_spectrogram,
\* _amplitude_spectrogram, _power_spectrogram, _power_level_from_power_spectrogram.
DerivationsOf(type) ==
    CASE type = "amplitude" -> <<"stft", "amplitude">>
      [] type = "power" -> <<"stft", "amplitude", "power">>
      [] OTHER -> <<"stft", "amplitude", "power", "power level">>

Computed(kinds, e) == [i \in 1..Len(kinds) |-> <<kinds[i], e>>]

\* _convert_spectrogram_to_mel_scale after sample_rate was read with outcome rate.
mel_scale_call(rate, events, e, type) ==
    IF rate.raised # "no"
    THEN Raised(rate, events \o rate.events)
    ELSE Returned(rate, events \o rate.events \o << <<"mel", e>> >>,
                  spectrogram(e, sample_rate[e], type, "mel"))

\* spectrogram(type, frequency_scale) after raw_audio was read with outcome audio.
spectrogram_of_audio(audio, e, type, frequency_scale) ==
    IF audio.raised # "no"
    THEN audio
    ELSE IF frequency_scale # "mel"
    THEN Returned(audio, audio.events \o Computed(DerivationsOf(type), e),
                  spectrogram(e, sample_rate[e], type, frequency_scale))
    ELSE mel_scale_call(lazy_attribute("sample_rate", e, audio.memo, audio.attributes),
                        audio.events \o Computed(DerivationsOf(type), e), e, type)

\* A call of spectrogram(type, frequency_scale): raw_audio is read in
\* _complex_spectrogram, the derivations of the type are computed, and the mel
\* conversion reads sample_rate.
spectrogram_call(e, memo, attributes, type, frequency_scale) ==
    spectrogram_of_audio(lazy_attribute("raw_audio", e, memo, attributes),
                         e, type, frequency_scale)

z_normalize_call(s, e) ==
    IF s.raised # "no"
    THEN s
    ELSE Returned(s, Append(s.events, <<"z_normalize", e>>),
                  z_normalized_transposed_spectrogram(e, sample_rate[e]))

\* A call of z_normalized_transposed_spectrogram()
z_normalized_transposed_spectrogram_call(e, memo, attributes) ==
    z_normalize_call(spectrogram_call(e, memo, attributes, "power level", "mel"), e)

duration_of_rate(rate, events, e) ==
    IF rate.raised # "no"
    THEN Raised(rate, events \o rate.events)
    ELSE Returned(rate, events \o rate.events, <<AudioSamples(e), sample_rate[e]>>)

duration_of_audio(audio, e) ==
    IF audio.raised # "no"
    THEN audio
    ELSE duration_of_rate(lazy_attribute("sample_rate", e, audio.memo, audio.attributes),
                          audio.events, e)

\* A call of duration_in_s(): raw_audio.shape[0] / sample_rate, kept as the
\* fraction <<samples, rate>>.
duration_in_s(e, memo, attributes) ==
    duration_of_audio(lazy_attribute("raw_audio", e, memo, attributes), e)

rate_of_duration(d, s) ==
    IF d.raised # "no"
    THEN Raised(d, s.events \o d.events)
    ELSE Returned(d, s.events \o d.events,
                  <<Len(s.value[1]) * d.value[2], d.value[1]>>)

rate_of_time_steps(s, e) ==
    IF s.raised # "no"
    THEN s
    ELSE rate_of_duration(duration_in_s(e, s.memo, s.attributes), s)

\* A call of time_step_rate(): time_step_count() / duration_in_s(), where
\* time_step_count() is spectrogram().shape[1]; kept as a fraction.
time_step_rate(e, memo, attributes) ==
    rate_of_time_steps(spectrogram_call(e, memo, attributes, "power level", "linear"), e)

attribute_value(name, r, e) ==
    IF r.raised # "no"
    THEN r
    ELSE Returned(r, r.events, IF name = "raw_audio" THEN <<AudioSamples(e)>>
                               ELSE <<sample_rate[e]>>)

\* A read of the attribute raw_audio or sample_rate.
attribute_read(name, e, memo, attributes) ==
    attribute_value(name, lazy_attribute(name, e, memo, attributes), e)

SpectrogramTypes == {"power", "amplitude", "power level"}
FrequencyScales == {"linear", "mel"}

AccessorCall(accessor, e, memo, attributes) ==
    CASE accessor[1] = "spectrogram" ->
            spectrogram_call(e, memo, attributes, accessor[2], accessor[3])
      [] accessor[1] = "z_normalized_transposed_spectrogram" ->
            z_normalized_transposed_spectrogram_call(e, memo, attributes)
      [] accessor[1] = "duration_in_s" -> duration_in_s(e, memo, attributes)
      [] accessor[1] = "time_step_rate" -> time_step_rate(e, memo, attributes)
      [] OTHER -> attribute_read(accessor[1], e, memo, attributes)

CountOf(events, d) == Cardinality({i \in 1..Len(events) : events[i][1] = d})

\* The object after a call of outcome r: what the call memoized stays in the
\* object, and what it computed is counted.
Called(accessor, r) ==
    /\ audio_memo' = r.memo
    /\ labeled_example' =
          [labeled_example EXCEPT
              !.attributes = r.attributes,
              !.calls = @ + 1,
              !.computed = [d \in Derivations |-> @[d] + CountOf(r.events, d)],
              !.last = [accessor |-> accessor] @@ r]

\* One accessor call on the example.
Call(accessor) ==
    /\ labeled_example.id # ""
    /\ labeled_example.calls < MaxCalls
    /\ Called(accessor, AccessorCall(accessor, labeled_example.id, audio_memo,
                                     labeled_example.attributes))
    /\ UNCHANGED <<sample_rate, cache, call_events, returned, first_returned, fill,
                   corpusVars, generatorVars, batchVars, splitVars>>

RawAudio == Call(<<"raw_audio", "", "">>)
SampleRate == Call(<<"sample_rate", "", "">>)
Spectrogram ==
    \E type \in SpectrogramTypes, frequency_scale \in FrequencyScales :
        Call(<<"spectrogram", type, frequency_scale>>)
ZNormalizedTransposedSpectrogram ==
    Call(<<"z_normalized_transposed_spectrogram", "", "">>)
DurationInS == Call(<<"duration_in_s", "", "">>)
TimeStepRate == Call(<<"time_step_rate", "", "">>)

\* A LabeledExample is constructed with the default asserted sample rate over
\* an audio source of either rate; nothing is loaded yet.
InitExample ==
    /\ CorpusUnused /\ GeneratorUnused /\ BatchesUnused /\ SplitUnused
    /\ \E r \in {AssertedSampleRate, OtherSampleRate} :
          sample_rate = [e \in ExampleIds |-> r]
    /\ cache = <<>>
    /\ audio_memo = {}
    /\ call_events = <<>>
    /\ returned = NoCall
    /\ first_returned = <<>>
    /\ fill = IdleFill
    /\ \E e \in ExampleIds :
          labeled_example = [NoExample EXCEPT !.id = e]

NextExample ==
    \/ RawAudio
    \/ SampleRate
    \/ Spectrogram
    \/ ZNormalizedTransposedSpectrogram
    \/ DurationInS
    \/ TimeStepRate

SpecExample == InitExample /\ [][NextExample]_vars

\* C11: over any sequence of accessor calls on one LabeledExample the deferred
\* audio-loading function is invoked at most once and each spectrogram
\* derivation is computed at most once, also when the first audio access
\* failed the sample-rate assertion.
C11_ComputedAtMostOnce ==
    \A d \in Derivations : labeled_example.computed[d] <= 1

(***************************************************************************)
(* CachedLabeledSpectrogram: the cache file of an example is named by its   *)
(* id; cache maps the ids that have a file to the array stored in it.       *)
(***************************************************************************)
\* CachedLabeledSpectrogram.exists()
exists(e, files) == e \in DOMAIN files

\* CachedLabeledSpectrogram.z_normalized_transposed_spectrogram(): load the
\* file when it exists, otherwise compute, store and return.
CachedSpectrogram(e, files, memo) ==
    IF exists(e, files)
    THEN [raised |-> "no", files |-> files, memo |-> memo,
          events |-> << <<"read", e>> >>, value |-> files[e]]
    ELSE LET c == ComputeSpectrogram(e, memo)
         IN IF c.raised # "no"
            THEN [raised |-> c.raised, files |-> files, memo |-> c.memo,
                  events |-> c.events]
            ELSE [raised |-> "no", files |-> (e :> c.value) @@ files, memo |-> c.memo,
                  events |-> Append(c.events, <<"write", e>>), value |-> c.value]

(***************************************************************************)
(* corpus.py: LabeledSpectrogramBatchGenerator over a corpus of two         *)
(* training examples and one test example.                                  *)
(***************************************************************************)
labeled_spectrograms == labeled_training_spectrograms \o labeled_test_spectrograms

\* An array some earlier run left in a cache file.
StoredArray == [nan |-> FALSE, values |-> << <<7>>, <<-7>> >>]

FillRunning == fill.pc \in {"submit", "wait", "collect"}

\* A call of the cached accessor on example e by the process itself.
CallCached(e) ==
    /\ ~FillRunning
    /\ LET r == CachedSpectrogram(e, cache, audio_memo)
           repeat == e \in DOMAIN first_returned
       IN /\ cache' = r.files
          /\ audio_memo' = r.memo
          /\ call_events' = r.events
          /\ returned' = IF r.raised = "no"
                         THEN [id |-> e, raised |-> "no", repeat |-> repeat,
                               value |-> r.value]
                         ELSE [id |-> e, raised |-> r.raised, repeat |-> repeat]
          /\ first_returned' = IF r.raised = "no" /\ ~repeat
                               THEN (e :> r.value) @@ first_returned
                               ELSE first_returned
    /\ UNCHANGED <<exampleVars, sample_rate, fill, corpusVars, generatorVars, batchVars, splitVars>>

\* A to_calculate that forgets the existence check.
ToCalculateEverything(files) == labeled_spectrograms

\* fill_cache: to_calculate = [s for s in self.labeled_spectrograms if not s.exists()]
ToCalculate(files) == SelectSeq(labeled_spectrograms, LAMBDA s : ~exists(s, files))

\* fill_cache() up to the summary line: the pool is created, the missing
\* examples are listed and the counts are printed.
FillStart ==
    /\ ~FillRunning
    /\ LET total == Len(labeled_spectrograms)
           to_calculate == ToCalculate(cache)
       IN fill' = [pc |-> "submit", to_calculate |-> to_calculate, index |-> 0,
                   in_flight |-> {}, result |-> "none", events |-> <<>>,
                   failed |-> <<>>, at_check |-> cache,
                   summary |-> <<total, total - Len(to_calculate), Len(to_calculate)>>,
                   raised |-> "no", processes |-> fill.processes, worker |-> 0]
    /\ UNCHANGED <<exampleVars, sample_rate, cache, audio_memo, call_events, returned,
                   first_returned, corpusVars, generatorVars, batchVars,
                   splitVars>>

\* A submission that does not wait for the task, as pool.apply_async would.
FillSubmitWithoutWaiting ==
    /\ fill.pc = "submit"
    /\ fill.index < Len(fill.to_calculate)
    /\ LET s == fill.to_calculate[fill.index + 1]
       IN fill' = [fill EXCEPT !.index = @ + 1, !.in_flight = @ \cup {s},
                               !.events = Append(@, <<"dispatch", s>>)]
    /\ UNCHANGED <<exampleVars, sample_rate, cache, audio_memo, call_events, returned,
                   first_returned, corpusVars, generatorVars, batchVars,
                   splitVars>>

\* pool.apply(_cache_spectrogram, (labeled_spectrogram,)): the task is handed
\* to the pool and the caller blocks.
FillSubmit ==
    /\ fill.pc = "submit"
    /\ fill.index < Len(fill.to_calculate)
    /\ LET s == fill.to_calculate[fill.index + 1]
       IN fill' = [fill EXCEPT !.pc = "wait", !.in_flight = @ \cup {s},
                               !.events = Append(@, <<"dispatch", s>>)]
    /\ UNCHANGED <<exampleVars, sample_rate, cache, audio_memo, call_events, returned,
                   first_returned, corpusVars, generatorVars, batchVars,
                   splitVars>>

\* One of the pool's worker processes runs _cache_spectrogram on its copy of
\* the example: what it memoizes stays in the worker, the cache file it writes
\* is shared.
WorkerRun ==
    /\ fill.pc = "wait"
    /\ \E s \in fill.in_flight, w \in 1..fill.processes :
         LET r == CachedSpectrogram(s, cache, audio_memo)
         IN /\ cache' = r.files
            /\ fill' = [fill EXCEPT !.pc = "collect", !.in_flight = @ \ {s},
                                    !.result = r.raised,
                                    !.worker = w,
                                    !.events = @ \o r.events \o << <<"complete", s>> >>,
                                    !.failed = IF r.raised = "no" THEN @
                                               ELSE Append(@, s)]
    /\ UNCHANGED <<exampleVars, sample_rate, audio_memo, call_events, returned, first_returned,
                   corpusVars, generatorVars, batchVars, splitVars>>

\* A fill that skips a failed example and goes on.
FillCollectAndContinue ==
    /\ fill.pc = "collect"
    /\ fill' = [fill EXCEPT !.pc = "submit", !.index = @ + 1, !.result = "none"]
    /\ UNCHANGED <<exampleVars, sample_rate, cache, audio_memo, call_events, returned,
                   first_returned, corpusVars, generatorVars, batchVars,
                   splitVars>>

\* pool.apply returns the task's result or raises its exception; an exception
\* leaves fill_cache() (the with block terminates the pool).
FillCollect ==
    /\ fill.pc = "collect"
    /\ fill' = IF fill.result = "no"
               THEN [fill EXCEPT !.pc = "submit", !.index = @ + 1, !.result = "none"]
               ELSE [fill EXCEPT !.pc = "raised", !.raised = fill.result,
                                 !.result = "none"]
    /\ UNCHANGED <<exampleVars, sample_rate, cache, audio_memo, call_events, returned,
                   first_returned, corpusVars, generatorVars, batchVars,
                   splitVars>>

\* After the last task: pool.close(), pool.join(), and fill_cache() returns.
FillFinish ==
    /\ fill.pc = "submit"
    /\ fill.index = Len(fill.to_calculate)
    /\ fill' = [fill EXCEPT !.pc = "done"]
    /\ UNCHANGED <<exampleVars, sample_rate, cache, audio_memo, call_events, returned,
                   first_returned, corpusVars, generatorVars, batchVars,
                   splitVars>>

\* The generator is constructed over a cache directory that may hold files of
\* earlier runs; each example's audio source has its sample rate.
InitCache ==
    /\ CorpusUnused /\ BatchesUnused /\ SplitUnused /\ ExampleUnused
    /\ labeled_training_spectrograms = <<"a", "b">>
    /\ labeled_test_spectrograms = <<"c">>
    /\ batch_size = DefaultBatchSize
    /\ sample_rate \in [ExampleIds -> {AssertedSampleRate, OtherSampleRate}]
    /\ \E cached \in SUBSET ExampleIds : cache = [e \in cached |-> StoredArray]
    /\ audio_memo = {}
    /\ call_events = <<>>
    /\ returned = NoCall
    /\ first_returned = <<>>
    /\ \E processes \in 1..MaxProcesses : fill = [IdleFill EXCEPT !.processes = processes]

NextCache ==
    \/ \E e \in ExampleIds : CallCached(e)
    \/ FillStart
    \/ FillSubmit
    \/ WorkerRun
    \/ FillCollect
    \/ FillFinish

SpecCache == InitCache /\ [][NextCache]_vars

(***************************************************************************)
(* Claims about the spectrogram cache and fill_cache().                    *)
(***************************************************************************)
HasEvent(events, kind) == \E i \in 1..Len(events) : events[i][1] = kind

EventCount(events, kind, e) ==
    Cardinality({i \in 1..Len(events) : events[i] = <<kind, e>>})

Abs(x) == IF x < 0 THEN -x ELSE x

\* array is the z-normalization of the example's transposed mel power-level
\* spectrogram: the same shape, and nan throughout when the spectrogram is
\* constant, otherwise mean 0 and standard deviation 1 up to the rounding of
\* the entries, in the order of the spectrogram's entries.
IsZNormalizedSpectrogramOf(e, array) ==
    LET source == Transpose(spectrogram(e, sample_rate[e], "power level", "mel"))
        xs == Entries(source)
        zs == Entries(array.values)
        n == Len(xs)
    IN /\ Len(array.values) = Len(source)
       /\ \A i \in 1..Len(source) : Len(array.values[i]) = Len(source[i])
       /\ IF \A i \in 1..n : xs[i] = xs[1]
          THEN array.nan
          ELSE /\ ~array.nan
               /\ Abs(SumSeq(zs)) <= n
               /\ Abs(SumSeq([i \in 1..n |-> zs[i] * zs[i]]) - n * ZScale * ZScale)
                    <= 2 * n * ZScale
               /\ \A i, j \in 1..n : xs[i] < xs[j] => zs[i] < zs[j]

\* C2: a call of the cached accessor while the cache file exists returns the
\* stored array unchanged, without loading audio or computing; a call while it
\* does not exist computes the z-normalized spectrogram, stores it in the
\* example's cache file and returns it (a call that raises stores nothing); a
\* later call on the same example returns the array of the first and loads no
\* audio.
C2_CachedAccessor ==
    [][\A e \in ExampleIds : CallCached(e) =>
          /\ exists(e, cache) =>
                /\ returned'.raised = "no"
                /\ returned'.value = cache[e]
                /\ cache' = cache
                /\ audio_memo' = audio_memo
                /\ ~HasEvent(call_events', "load_audio")
                /\ ~HasEvent(call_events', "compute")
          /\ (~exists(e, cache) /\ returned'.raised = "no") =>
                /\ HasEvent(call_events', "compute")
                /\ IsZNormalizedSpectrogramOf(e, returned'.value)
                /\ DOMAIN cache' = DOMAIN cache \cup {e}
                /\ cache'[e] = returned'.value
                /\ \A other \in DOMAIN cache : cache'[other] = cache[other]
          /\ (~exists(e, cache) /\ returned'.raised # "no") => cache' = cache
          /\ e \in DOMAIN first_returned =>
                /\ returned'.raised = "no"
                /\ returned'.value = first_returned[e]
                /\ ~HasEvent(call_events', "load_audio")
      ]_vars

\* A second call has returned the array that the first call computed.
C2_Witness ==
    /\ returned.raised = "no"
    /\ returned.repeat
    /\ returned.value # StoredArray
    /\ ~returned.value.nan
    /\ call_events = << <<"read", returned.id>> >>

\* C3: when fill_cache() has returned normally every training and test example
\* has a cache file, the computation was dispatched (and run) exactly once for
\* each example without a file at the check and never for one with a file,
\* whose file is unchanged.
C3_FillCacheFillsTheMissing ==
    fill.pc = "done" =>
        /\ \A e \in Range(labeled_spectrograms) : exists(e, cache)
        /\ \A e \in Range(labeled_spectrograms) :
              LET expected == IF exists(e, fill.at_check) THEN 0 ELSE 1
              IN /\ EventCount(fill.events, "dispatch", e) = expected
                 /\ EventCount(fill.events, "compute", e) = expected
        /\ \A e \in DOMAIN fill.at_check : cache[e] = fill.at_check[e]

\* fill_cache() has returned with a cached and a missing example at the check.
C3_Witness ==
    /\ fill.pc = "done"
    /\ \E e \in ExampleIds : exists(e, fill.at_check)
    /\ \E e \in ExampleIds : ~exists(e, fill.at_check)

PositionIn(sequence, item) == CHOOSE i \in 1..Len(sequence) : sequence[i] = item

\* C4: once the computation of a missing example has raised, fill_cache() does
\* nothing but raise that exception to its caller: the failed example was
\* dispatched once, and no example later in the missing list is dispatched.
C4_FailureAbortsTheFill ==
    \A k \in 1..Len(fill.failed) :
        LET f == fill.failed[k]
            position == PositionIn(fill.to_calculate, f)
        IN /\ fill.pc \in {"collect", "raised"}
           /\ fill.pc = "raised" => fill.raised = "AssertionError"
           /\ EventCount(fill.events, "dispatch", f) = 1
           /\ \A j \in (position + 1)..Len(fill.to_calculate) :
                 EventCount(fill.events, "dispatch", fill.to_calculate[j]) = 0

\* fill_cache() has raised with missing examples left after the one that failed.
C4_Witness ==
    /\ fill.pc = "raised"
    /\ fill.raised = "AssertionError"
    /\ fill.index + 1 < Len(fill.to_calculate)

\* The ids of the events of a kind, in the order of the events.
IdsOfKind(events, kind) ==
    LET selected == SelectSeq(events, LAMBDA event : event[1] = kind)
    IN [i \in 1..Len(selected) |-> selected[i][2]]

IsPrefix(p, sequence) ==
    /\ Len(p) <= Len(sequence)
    /\ \A i \in 1..Len(p) : p[i] = sequence[i]

\* The examples of the generator without a cache file among files, training
\* examples before test examples, each in corpus order.
MissingIn(files) ==
    LET missing(examples) == SelectSeq(examples, LAMBDA e : e \notin DOMAIN files)
    IN missing(labeled_training_spectrograms) \o missing(labeled_test_spectrograms)

FillOrdered ==
    fill.pc # "idle" =>
        /\ Cardinality(fill.in_flight) <= 1
        /\ fill.to_calculate = MissingIn(fill.at_check)
        /\ fill.summary = <<Len(labeled_spectrograms),
                            Len(labeled_spectrograms) - Len(MissingIn(fill.at_check)),
                            Len(MissingIn(fill.at_check))>>
        /\ IsPrefix(IdsOfKind(fill.events, "dispatch"), fill.to_calculate)
        /\ IsPrefix(IdsOfKind(fill.events, "write"), fill.to_calculate)
        /\ \A i \in 1..Len(fill.events) :
              LET k == Len(IdsOfKind(SubSeq(fill.events, 1, i), "dispatch"))
              IN (fill.events[i][1] = "dispatch" /\ k > 1) =>
                    \E j \in 1..(i - 1) :
                        fill.events[j] = <<"complete", fill.to_calculate[k - 1]>>

\* C12: within one fill_cache() call at most one computation is in flight
\* whatever the pool size: the task of the k-th missing example is submitted
\* only after the task of the (k-1)-th has completed, cache files are created
\* in the order of the missing list (training before test, corpus order), and
\* the missing list and the summary counts are those of the check made before
\* the first submission and do not change during the call.
C12_OneTaskInFlight ==
    /\ []FillOrdered
    /\ [][FillRunning =>
            /\ fill'.to_calculate = fill.to_calculate
            /\ fill'.summary = fill.summary
            /\ fill'.at_check = fill.at_check]_vars

\* fill_cache() has returned on a machine with several processes after a
\* training and a test example were computed, the last by the second worker.
C12_Witness ==
    /\ fill.pc = "done"
    /\ fill.processes > 1
    /\ fill.worker > 1
    /\ Len(fill.to_calculate) > 1
    /\ \E i \in 1..Len(fill.to_calculate) :
          fill.to_calculate[i] \in Range(labeled_test_spectrograms)
    /\ \E i \in 1..Len(fill.to_calculate) :
          fill.to_calculate[i] \in Range(labeled_training_spectrograms)

(***************************************************************************)
(* The process-wide generator of the random module: a state, a seed that    *)
(* fixes the state, and draws that advance it. random.sample as CPython     *)
(* selects from a pool: the j-th of the remaining items, the last remaining *)
(* item moved into its place.                                              *)
(***************************************************************************)
RngStates == 0..(RngModulus - 1)

RngNext(state) == (5 * state + 3) % RngModulus

\* random.seed(a)
seed(a) == a % RngModulus

RECURSIVE SampleFrom(_, _, _, _)
SampleFrom(pool, k, state, result) ==
    IF k = 0 THEN [raised |-> "no", value |-> result, rng |-> state]
    ELSE LET n == Len(pool)
             drawn == RngNext(state)
             j == (drawn % n) + 1
         IN SampleFrom(SubSeq([pool EXCEPT ![j] = pool[n]], 1, n - 1), k - 1, drawn,
                       Append(result, pool[j]))

\* random.sample(population, k) from generator state `state`
sample(population, k, state) ==
    IF k < 0 \/ k > Len(population)
    THEN [raised |-> "ValueError", rng |-> state]
    ELSE SampleFrom(population, k, state, <<>>)

RECURSIVE ChoicesFrom(_, _, _, _)
\* k draws with replacement
ChoicesFrom(population, k, state, result) ==
    IF k = 0 \/ Len(population) = 0 THEN [raised |-> "no", value |-> result, rng |-> state]
    ELSE LET drawn == RngNext(state)
         IN ChoicesFrom(population, k - 1, drawn,
                        Append(result, population[(drawn % Len(population)) + 1]))

(***************************************************************************)
(* corpus.py: training_batches() and test_batches()                        *)
(***************************************************************************)
\* A batch drawn with replacement.
training_batch_with_replacement(state) ==
    ChoicesFrom(labeled_training_spectrograms, batch_size, state, <<>>)

\* training_batches: random.sample(self.labeled_training_spectrograms, self.batch_size)
training_batch(state) == sample(labeled_training_spectrograms, batch_size, state)

\* next() on the training_batches() generator: a batch, or the ValueError of
\* random.sample, which ends the generator.
TrainingBatchesNext ==
    /\ training_gen = "running"
    /\ LET drawn == training_batch(rng)
       IN /\ rng' = drawn.rng
          /\ IF drawn.raised = "no"
             THEN batch' = drawn.value /\ training_gen' = "running"
             ELSE batch' = batch /\ training_gen' = "raised"
    /\ UNCHANGED <<exampleVars, test_gen, pages, generatorVars, corpusVars, cacheVars, splitVars>>

Min(a, b) == IF a < b THEN a ELSE b

\* A page that is one element short.
page_one_short(sequence, start, page_size) ==
    SubSeq(sequence, start + 1, Min(start + page_size - 1, Len(sequence)))

\* paginate: sequence[start:start + page_size]
page(sequence, start, page_size) ==
    SubSeq(sequence, start + 1, Min(start + page_size, Len(sequence)))

\* test_batches(): a new paginate generator over the test examples.
TestBatches ==
    /\ test_gen.state # "created"
    /\ test_gen' = [state |-> "created", start |-> 0]
    /\ pages' = <<>>
    /\ UNCHANGED <<exampleVars, rng, training_gen, batch, generatorVars, corpusVars, cacheVars,
                   splitVars>>

\* next() on the paginate generator: range(0, len(sequence), page_size) raises
\* ValueError for a step of 0; otherwise the page at start, until start reaches
\* the length.
TestBatchesNext ==
    /\ test_gen.state \in {"created", "running"}
    /\ IF batch_size = 0
       THEN test_gen' = [test_gen EXCEPT !.state = "raised"] /\ pages' = pages
       ELSE IF test_gen.start < Len(labeled_test_spectrograms)
       THEN /\ pages' = Append(pages, page(labeled_test_spectrograms, test_gen.start,
                                            batch_size))
            /\ test_gen' = [state |-> "running", start |-> test_gen.start + batch_size]
       ELSE test_gen' = [test_gen EXCEPT !.state = "exhausted"] /\ pages' = pages
    /\ UNCHANGED <<exampleVars, rng, training_gen, batch, generatorVars, corpusVars, cacheVars,
                   splitVars>>

\* The test set of the worked example: two full pages of the default size and
\* a page of two.
ExampleTestSize == 2 * DefaultBatchSize + 2

\* A generator over a test set of distinct examples and a batch size.
InitTestBatches ==
    /\ CorpusUnused /\ CacheUnused /\ SplitUnused /\ ExampleUnused
    /\ rng = 0 /\ training_gen = "running" /\ batch = <<>>
    /\ labeled_training_spectrograms = <<>>
    /\ \E L \in 0..MaxTest, b \in 0..MaxBatch, example \in BOOLEAN :
         /\ labeled_test_spectrograms =
               [i \in 1..(IF example THEN ExampleTestSize ELSE L) |-> i]
         /\ batch_size = IF example THEN DefaultBatchSize ELSE b
    /\ test_gen = [state |-> "created", start |-> 0]
    /\ pages = <<>>

NextTestBatches ==
    \/ TestBatches
    \/ TestBatchesNext

SpecTestBatches == InitTestBatches /\ [][NextTestBatches]_vars

\* A generator over a training set of distinct examples and a batch size, the
\* random generator in any state.
InitTrainingBatches ==
    /\ CorpusUnused /\ CacheUnused /\ SplitUnused /\ ExampleUnused
    /\ rng \in RngStates
    /\ training_gen = "running"
    /\ batch = <<>>
    /\ \E n \in 0..MaxTraining : labeled_training_spectrograms = [i \in 1..n |-> i]
    /\ labeled_test_spectrograms = <<>>
    /\ batch_size \in 0..MaxBatch
    /\ test_gen = [state |-> "created", start |-> 0]
    /\ pages = <<>>

NextTrainingBatches == TrainingBatchesNext

SpecTrainingBatches == InitTrainingBatches /\ [][NextTrainingBatches]_vars

(***************************************************************************)
(* Claims about the batches.                                               *)
(***************************************************************************)
\* C5: for a batch size of at least 1, the pages of test_batches() are
\* consecutive pieces of the test list, all of batch_size elements except a
\* last of 1 to batch_size, and once the generator is exhausted there are
\* ceil(L / batch_size) of them and together they are the test list; a test
\* set of 130 with batch size 64 gives pages of 64, 64 and 2.
C5_TestBatchesPartition ==
    batch_size >= 1 =>
        LET L == Len(labeled_test_spectrograms)
            n == Len(pages)
        IN /\ test_gen.state # "raised"
           /\ Flatten(pages)
                = SubSeq(labeled_test_spectrograms, 1, Len(Flatten(pages)))
           /\ \A i \in 1..n : Len(pages[i]) >= 1 /\ Len(pages[i]) <= batch_size
           /\ \A i \in 1..(n - 1) : Len(pages[i]) = batch_size
           /\ test_gen.state = "exhausted" =>
                /\ n = (L + batch_size - 1) \div batch_size
                /\ Flatten(pages) = labeled_test_spectrograms
                /\ (L = ExampleTestSize /\ batch_size = DefaultBatchSize) =>
                      [i \in 1..n |-> Len(pages[i])]
                        = <<DefaultBatchSize, DefaultBatchSize, 2>>

\* The worked example has been paged to the end.
C5_Witness ==
    /\ test_gen.state = "exhausted"
    /\ Len(labeled_test_spectrograms) = ExampleTestSize
    /\ batch_size = DefaultBatchSize
    /\ Len(pages) = 3

IsTrainingBatch(b) ==
    /\ Len(b) = batch_size
    /\ \A i \in 1..Len(b) : b[i] \in Range(labeled_training_spectrograms)
    /\ \A i, j \in 1..Len(b) : i # j => b[i] # b[j]

\* C6 as claimed: for every training set and batch size the generator never
\* ends, and every batch it yields has batch_size distinct training examples.
C6_EveryBatchSize ==
    /\ training_gen = "running"
    /\ ENABLED TrainingBatchesNext
    /\ batch # <<>> => IsTrainingBatch(batch)

\* C6 amended: for a batch size of at most the size of the training set, the
\* generator never ends and every batch it yields, the next one included, has
\* batch_size distinct training examples.
C6_BatchesOfDistinctExamples ==
    batch_size <= Len(labeled_training_spectrograms) =>
        /\ training_gen = "running"
        /\ ENABLED TrainingBatchesNext
        /\ IsTrainingBatch(training_batch(rng).value)
        /\ batch # <<>> => IsTrainingBatch(batch)

\* A batch of several examples has been yielded from a larger training set.
C6_Witness ==
    /\ batch_size >= 2
    /\ batch_size < Len(labeled_training_spectrograms)
    /\ Len(batch) = batch_size

(***************************************************************************)
(* corpus.py: TrainingTestSplit. A key is a text; group sorts by key, texts *)
(* in the order of their characters.                                       *)
(***************************************************************************)
\* The examples the split strategies draw from: two in one directory, one in
\* the directory "test".
SplitExamples ==
    { [id |-> <<"a">>, audio_file |-> <<"x", Slash, "a">>, label |-> None],
      [id |-> <<"b">>, audio_file |-> <<"x", Slash, "b">>, label |-> None],
      [id |-> <<"c">>, audio_file |-> PhaseTest \o <<Slash, "c">>, label |-> None],
      [id |-> <<"d">>, audio_file |-> <<"y", Slash, "d">>, label |-> None] }

Alphabet == <<Quote, Comma, Slash, "a", "b", "c", "d", "e", "h", "s", "t", "x", "y">>
CharCode(c) == CHOOSE i \in 1..Len(Alphabet) : Alphabet[i] = c

RECURSIVE TextLess(_, _)
TextLess(a, b) ==
    IF Len(b) = 0 THEN FALSE
    ELSE IF Len(a) = 0 THEN TRUE
    ELSE IF Head(a) = Head(b) THEN TextLess(Tail(a), Tail(b))
    ELSE CharCode(Head(a)) < CharCode(Head(b))

LastSlash(path) ==
    LET at == {i \in 1..Len(path) : path[i] = Slash}
    IN IF at = {} THEN 0 ELSE CHOOSE i \in at : \A j \in at : j <= i

\* example.audio_directory: the parent of the audio file
audio_directory(e) == SubSeq(e.audio_file, 1, LastSlash(e.audio_file) - 1)

\* Path.name: the last component
PathName(path) == SubSeq(path, LastSlash(path) + 1, Len(path))

\* key_from_example(example)
KeyOf(key, e) == IF key = "id" THEN e.id ELSE audio_directory(e)

RECURSIVE SortedTexts(_)
SortedTexts(texts) ==
    IF texts = {} THEN <<>>
    ELSE LET least == CHOOSE t \in texts : \A u \in texts : ~TextLess(u, t)
         IN <<least>> \o SortedTexts(texts \ {least})

\* tools.group: the keys in sorted order, each with its items in input order
group(iterable, key) ==
    LET keys == SortedTexts({KeyOf(key, iterable[i]) : i \in 1..Len(iterable)})
    IN [i \in 1..Len(keys) |->
          <<keys[i], SelectSeq(iterable, LAMBDA e : KeyOf(key, e) = keys[i])>>]

\* A count of training keys that rounds up.
TrainingKeyCountRoundedUp(share, count) == (share[1] * count + share[2] - 1) \div share[2]

\* int(training_share * len(directories)), the share a fraction
TrainingKeyCount(share, count) == (share[1] * count) \div share[2]

\* A split that does not seed the generator.
not_seeded(state) == state

\* random.seed(42): "split must be the same every time"
seeded(state) == seed(RandomSeed)

\* The split function of randomly_grouped_by(key_from_example, training_share),
\* applied to examples with the generator in `state`.
randomly_grouped_by_split(key, share, examples, state) ==
    LET examples_by_directory == group(examples, key)
        directories == [i \in 1..Len(examples_by_directory) |->
                           examples_by_directory[i][1]]
        drawn == sample(directories, TrainingKeyCount(share, Len(directories)),
                        seeded(state))
        keys == Range(drawn.value)
    IN [training |-> SelectSeq(examples, LAMBDA e : KeyOf(key, e) \in keys),
        test |-> SelectSeq(examples, LAMBDA e : KeyOf(key, e) \notin keys),
        rng |-> drawn.rng]

RECURSIVE Reverse(_)
Reverse(sequence) ==
    IF Len(sequence) = 0 THEN <<>>
    ELSE Append(Reverse(Tail(sequence)), Head(sequence))

\* The example set as a list, in one order or the other.
SplitInputs == {split_examples, Reverse(split_examples)}

\* randomly(...), randomly_grouped_by_directory(...) or randomly_grouped_by(...)
\* applied to the examples.
SplitRandomlyGroupedBy ==
    \E examples \in SplitInputs :
        LET r == randomly_grouped_by_split(key_from_example, training_share,
                                           examples, rng)
            settled == randomly_grouped_by_split(key_from_example, training_share,
                                                 examples, seed(RandomSeed)).rng
        IN /\ rng' = r.rng
           /\ last_split' = [strategy |-> "randomly_grouped_by", examples |-> examples,
                             training |-> r.training, test |-> r.test,
                             repeat |-> first_split # NoSplit,
                             rng_moved |-> rng # settled]
           /\ first_split' = IF first_split = NoSplit
                             THEN [strategy |-> "randomly_grouped_by",
                                   examples |-> examples,
                                   training |-> r.training, test |-> r.test]
                             ELSE first_split
           /\ UNCHANGED <<exampleVars, split_examples, key_from_example, training_share,
                          training_gen, batch, test_gen, pages, generatorVars,
                          corpusVars, cacheVars>>

SplitFrame ==
    UNCHANGED <<exampleVars, split_examples, key_from_example, training_share, first_split,
                batchVars, generatorVars, corpusVars, cacheVars>>

\* training_only = lambda examples: (examples, [])
SplitTrainingOnly ==
    /\ \E examples \in SplitInputs :
         last_split' = [strategy |-> "training_only", examples |-> examples,
                        training |-> examples, test |-> <<>>]
    /\ SplitFrame

\* test_only = lambda examples: ([], examples)
SplitTestOnly ==
    /\ \E examples \in SplitInputs :
         last_split' = [strategy |-> "test_only", examples |-> examples,
                        training |-> <<>>, test |-> examples]
    /\ SplitFrame

\* overfit(training_example_count):
\* (examples[:training_example_count], examples[training_example_count:])
SplitOverfit ==
    /\ \E examples \in SplitInputs, training_example_count \in 0..MaxSplitLen :
         last_split' =
            [strategy |-> "overfit", examples |-> examples,
             training |-> SubSeq(examples, 1, Min(training_example_count, Len(examples))),
             test |-> SubSeq(examples, training_example_count + 1, Len(examples))]
    /\ SplitFrame

\* by_directory(test_directory_name="test")
SplitByDirectory ==
    /\ \E examples \in SplitInputs :
         LET test_directory_name == PhaseTest
         IN last_split' =
              [strategy |-> "by_directory", examples |-> examples,
               training |-> SelectSeq(examples, LAMBDA e :
                               PathName(audio_directory(e)) # test_directory_name),
               test |-> SelectSeq(examples, LAMBDA e :
                               PathName(audio_directory(e)) = test_directory_name)]
    /\ SplitFrame

NoRepeats(sequence) == \A i, j \in 1..Len(sequence) : i # j => sequence[i] # sequence[j]

TrainingShares == {<<0, 1>>, <<1, 2>>, <<9, 10>>, <<1, 1>>}

\* A list of distinct examples, a key function and a training share for the
\* randomly family, and a batch generator that draws single examples.
InitSplit ==
    /\ CorpusUnused /\ CacheUnused /\ ExampleUnused
    /\ split_examples \in {l \in SeqsUpTo(SplitExamples, MaxSplitLen) : NoRepeats(l)}
    /\ key_from_example \in {"id", "audio_directory"}
    /\ training_share \in TrainingShares
    /\ first_split = NoSplit
    /\ last_split = NoSplit
    /\ rng = 0
    /\ training_gen = "running"
    /\ batch = <<>>
    /\ labeled_training_spectrograms = <<1, 2>>
    /\ labeled_test_spectrograms = <<>>
    /\ batch_size = 1
    /\ test_gen = [state |-> "created", start |-> 0]
    /\ pages = <<>>

\* The randomly family between the draws of training batches.
NextSplit ==
    \/ SplitRandomlyGroupedBy
    \/ TrainingBatchesNext

SpecSplit == InitSplit /\ [][NextSplit]_vars

\* Every split strategy.
NextStrategies ==
    \/ SplitRandomlyGroupedBy
    \/ SplitTrainingOnly
    \/ SplitTestOnly
    \/ SplitOverfit
    \/ SplitByDirectory

SpecStrategies == InitSplit /\ [][NextStrategies]_vars

(***************************************************************************)
(* Claims about the split strategies.                                      *)
(***************************************************************************)
\* C7: every application of a split of the randomly family to the same set of
\* examples, with the same key function and training share, returns the
\* partition of the first application (the same lists for the same list),
\* whatever was drawn from the random generator before or in between.
C7_RandomSplitIsReproducible ==
    last_split.strategy = "randomly_grouped_by" =>
        /\ Range(last_split.training) = Range(first_split.training)
        /\ Range(last_split.test) = Range(first_split.test)
        /\ last_split.examples = first_split.examples =>
              /\ last_split.training = first_split.training
              /\ last_split.test = first_split.test

\* A second application, made after training batches were drawn, that moved an
\* example to each side.
C7_Witness ==
    /\ last_split.strategy = "randomly_grouped_by"
    /\ last_split.repeat
    /\ last_split.rng_moved
    /\ last_split.training # <<>>
    /\ last_split.test # <<>>

SplitKeys(examples) == {KeyOf(key_from_example, examples[i]) : i \in 1..Len(examples)}

\* C8: randomly_grouped_by sends int(training_share * K) of the K distinct keys
\* to training and every example to the side of its key, each example in one
\* of the two lists, in input order.
C8_RandomSplitGroupsByKey ==
    last_split.strategy = "randomly_grouped_by" =>
        LET training_keys == SplitKeys(last_split.training)
            K == Cardinality(SplitKeys(last_split.examples))
        IN /\ Cardinality(training_keys) = (training_share[1] * K) \div training_share[2]
           /\ training_keys \cap SplitKeys(last_split.test) = {}
           /\ last_split.training
                = SelectSeq(last_split.examples,
                            LAMBDA e : KeyOf(key_from_example, e) \in training_keys)
           /\ last_split.test
                = SelectSeq(last_split.examples,
                            LAMBDA e : KeyOf(key_from_example, e) \notin training_keys)

\* A split by directory of three examples in two directories, one directory to
\* each side.
C8_Witness ==
    /\ last_split.strategy = "randomly_grouped_by"
    /\ key_from_example = "audio_directory"
    /\ Len(last_split.examples) = 3
    /\ Cardinality(SplitKeys(last_split.examples)) = 2
    /\ Cardinality(SplitKeys(last_split.training)) = 1
    /\ Cardinality(SplitKeys(last_split.test)) = 1

\* C9: applying a split strategy leaves the state of the process-wide random
\* generator, and so the next training batch, as it was.
C9_SplitsLeaveTheGeneratorAlone ==
    [][(\/ SplitRandomlyGroupedBy
        \/ SplitTrainingOnly
        \/ SplitTestOnly
        \/ SplitOverfit
        \/ SplitByDirectory) => rng' = rng]_vars

====
